---- MODULE Spec2Model ----
(***************************************************************************)
(* A model of gpt_image.py: the k-means codebook builder (kmeans) and the  *)
(* dataset adapter (ImageDataset) with the driver's decoding step.         *)
(*                                                                         *)
(* Numbers.  Input vectors hold small non-negative integers (pixel bytes   *)
(* converted with .float()).  A center is a mean of input vectors, kept    *)
(* exactly as a fraction [num |-> <<...>>, den |-> n] in lowest terms, so  *)
(* that two centers are equal as records exactly when they are equal as    *)
(* values.  The mean of an empty selection is 0/0: den = 0 stands for a    *)
(* row of NaN, which is how the only NaN of this program arises.  Rounding *)
(* of float32 is not modelled.                                             *)
(*                                                                         *)
(* Indices that the program computes (argmin results, permutation entries, *)
(* dataset indices) keep the program's 0-based values; TLA+ sequences are   *)
(* 1-based, so row k of a tensor is element k + 1 of the sequence.         *)
(***************************************************************************)
EXTENDS Integers, Sequences, FiniteSets, TLC

\* ---------------------------------------------------------------- bounds
\* kmeans inputs: at most MaxN vectors of Dim components in 0..MaxVal, at
\* most MaxK clusters, at most MaxIter iterations.
MaxN == 3
MaxK == 3
MaxIter == 2
MaxVal == 1
Dim == 1
\* The adapter: NPix stands for the 32*32 pixels of an image, datasets hold
\* at most MaxImages images and codebooks at most MaxVocab vectors.
NPix == 3
MaxImages == 2
MaxVocab == 2

\* ------------------------------------------------------------ arithmetic
Abs(n) == IF n < 0 THEN -n ELSE n

RECURSIVE GCD(_, _)
GCD(m, n) == IF n = 0 THEN m ELSE GCD(n, m % n)

RECURSIVE GCDSeq(_, _)
GCDSeq(s, g) == IF s = <<>> THEN g ELSE GCDSeq(Tail(s), GCD(Abs(Head(s)), g))

\* A fraction vector in lowest terms; 0/0 (NaN) is left as it is.
Normalize(num, den) ==
  IF den = 0 THEN [num |-> num, den |-> 0]
  ELSE LET g == GCDSeq(num, den)
       IN  [num |-> [d \in 1..Len(num) |-> num[d] \div g], den |-> den \div g]

\* A scalar fraction n/d; d = 0 is NaN.
Frac(n, d) == [num |-> n, den |-> d]

IsNaN(c) == c.den = 0

\* torch.any(torch.isnan(c), dim=1): which rows hold a NaN.
NanRows(cs) == [k \in 1..Len(cs) |-> IsNaN(cs[k])]

\* An input vector seen as a center (a row of x copied into c).
AsCenter(v) == [num |-> v, den |-> 1]

Vec == [1..Dim -> 0..MaxVal]

\* ------------------------------------------------- nearest-center lookup
RECURSIVE SumSq(_, _, _)
\* sum over the last dimension of (den*v - num)^2, components d..Dim.
SumSq(v, c, d) ==
  IF d > Len(v) THEN 0
  ELSE (c.den * v[d] - c.num[d]) * (c.den * v[d] - c.num[d]) + SumSq(v, c, d + 1)

\* ((v - c)**2).sum(-1) for one vector and one center, as a fraction:
\* sum_d (v[d] - num[d]/den)^2 = sum_d (den*v[d] - num[d])^2 / den^2.
SqDist(v, c) == Frac(SumSq(v, c, 1), c.den * c.den)

\* The row of distances from v to every center.
Dists(v, cs) == [k \in 1..Len(cs) |-> SqDist(v, cs[k])]

\* A comparison that also replaces the running best on a tie.
LessOrEqualOrNan(a, b) ==
  IF IsNaN(a) THEN ~IsNaN(b)
  ELSE IF IsNaN(b) THEN FALSE
  ELSE a.num * b.den <= b.num * a.den

\* The comparison of the argmin reduction: a replaces the running best b
\* (found at a lower index) only when strictly smaller; a NaN counts as
\* smaller than any number and the first NaN is kept.
LessOrNan(a, b) ==
  IF IsNaN(a) THEN ~IsNaN(b)
  ELSE IF IsNaN(b) THEN FALSE
  ELSE a.num * b.den < b.num * a.den

RECURSIVE ArgMinScan(_, _, _)
ArgMinScan(ds, k, best) ==
  IF k > Len(ds) THEN best
  ELSE ArgMinScan(ds, k + 1, IF LessOrNan(ds[k], ds[best]) THEN k ELSE best)

RECURSIVE ArgMaxIdxScan(_, _, _)
\* A scan that keeps the LAST minimal entry (ties broken by highest index).
ArgMaxIdxScan(ds, k, best) ==
  IF k > Len(ds) THEN best
  ELSE ArgMaxIdxScan(ds, k + 1, IF LessOrNan(ds[best], ds[k]) THEN best ELSE k)

ArgMinLast(ds) == ArgMaxIdxScan(ds, 2, 1) - 1

\* An argmin that reports the 1-based position.
ArgMinOneBased(ds) == ArgMinScan(ds, 2, 1)

\* .argmin(1) of one row: the 0-based index of the first minimal entry.
ArgMin(ds) == ArgMinScan(ds, 2, 1) - 1

\* a = ((x[:, None, :] - c[None, :, :])**2).sum(-1).argmin(1)
Assign(xs, cs) == [n \in 1..Len(xs) |-> ArgMin(Dists(xs[n], cs))]

\* ------------------------------------------------------------- the means
RECURSIVE SumRows(_, _, _, _)
\* The component-wise sum of the rows xs[n..] whose assignment is k.
SumRows(xs, as, k, n) ==
  IF n > Len(xs) THEN [d \in 1..Dim |-> 0]
  ELSE LET rest == SumRows(xs, as, k, n + 1)
       IN  IF as[n] = k THEN [d \in 1..Dim |-> xs[n][d] + rest[d]] ELSE rest

CountRows(as, k) == Cardinality({n \in 1..Len(as) : as[n] = k})

\* x[a==k].mean(0): NaN (0/0) when no row is assigned to k.
MeanOf(xs, as, k) == Normalize(SumRows(xs, as, k, 1), CountRows(as, k))

\* Means that divide by max(count, 1): an empty cluster gets the zero vector.
MeansZeroFill(xs, as, K) ==
  [k \in 1..K |-> Normalize(SumRows(xs, as, k - 1, 1),
                            IF CountRows(as, k - 1) = 0 THEN 1 ELSE CountRows(as, k - 1))]

\* torch.stack([x[a==k].mean(0) for k in range(ncluster)])
Means(xs, as, K) == [k \in 1..K |-> MeanOf(xs, as, k - 1)]

\* ---------------------------------------------------------- random draws
\* torch.randperm(n)[:m]: m distinct 0-based indices in any order (m <= n).
RandPermPrefix(n, m) ==
  {s \in [1..m -> 0..(n - 1)] : \A p, q \in 1..m : p # q => s[p] # s[q]}

\* x[idx] for an index tensor idx.
Gather(xs, idx) == [j \in 1..Len(idx) |-> xs[idx[j] + 1]]

\* How many rows before row k (1-based) are flagged.
RankIn(flags, k) == Cardinality({j \in 1..(k - 1) : flags[j]})

\* A buggy re-seeding that leaves the last dead row as it is.
MaskedAssignSkipLast(cs, flags, rows) ==
  [k \in 1..Len(cs) |->
     IF flags[k] /\ RankIn(flags, k) + 1 < Len(rows)
     THEN AsCenter(rows[RankIn(flags, k) + 1]) ELSE cs[k]]

\* c[nanix] = rows: the flagged rows of c, in order, take the rows given.
MaskedAssign(cs, flags, rows) ==
  [k \in 1..Len(cs) |-> IF flags[k] THEN AsCenter(rows[RankIn(flags, k) + 1]) ELSE cs[k]]

\* --------------------------------------------------------------- kmeans
VARIABLES
  x,         \* the input vectors, N rows
  ncluster,  \* K
  niter,
  c,         \* the centers
  a,         \* the assignment of the current iteration
  ndead,     \* the dead-cluster count of the current / last iteration
  i,         \* iterations completed (the loop variable of range(niter))
  pc,        \* "start" | "assign" | "mean" | "reseed" | "done"
  still,     \* history: trailing iterations that changed no center
  \* the driver from the construction of the adapters on
  train_data,    \* the base dataset: a sequence of images
  C,             \* the codebook handed to the adapters
  test_data,
  perm_arg,      \* the perm argument of the train adapter (None or a permutation)
  train_dataset, \* the ImageDataset objects (NoObject before construction)
  test_dataset,
  ret,           \* the last call on an adapter and what it returned
  iperm,         \* torch.argsort(train_dataset.perm)
  pixels,        \* the sampled row pixels[i] being decoded
  pxi,           \* pixels[i][iperm]
  dpc            \* "wrap_train" | "wrap_test" | "use" | "decode" | "decoded" | "idle"

kmVars == <<x, ncluster, niter, c, a, ndead, i, pc, still>>
dsVars == <<train_data, test_data, C, perm_arg, train_dataset, test_dataset, ret, iperm, pixels, pxi, dpc>>
vars == <<kmVars, dsVars>>

\* Python's None where a tensor is expected (no tensor of the model is empty).
None == <<>>

N == Len(x)

\* Lexicographic order on vectors, to enumerate each multiset of inputs once.
RECURSIVE LexLeq(_, _, _)
LexLeq(u, v, d) ==
  IF d > Dim THEN TRUE
  ELSE IF u[d] < v[d] THEN TRUE
  ELSE IF u[d] > v[d] THEN FALSE
  ELSE LexLeq(u, v, d + 1)

Inputs ==
  UNION {{s \in [1..n -> Vec] : \A p \in 1..(n - 1) : LexLeq(s[p], s[p + 1], 1)}
         : n \in 1..MaxN}

\* A name not yet bound to an adapter, and the absence of a call.
NoObject == [pt_dataset |-> <<>>, clusters |-> <<>>, perm |-> <<>>,
             vocab_size |-> 0, block_size |-> 0]
NoCall == [call |-> "none", obj |-> "none", idx |-> 0, val |-> <<>>, again |-> FALSE]

\* The driver's variables while only kmeans is looked at.
IdleDS ==
  /\ train_data = <<>>
  /\ test_data = <<>>
  /\ C = <<>>
  /\ perm_arg = None
  /\ train_dataset = NoObject
  /\ test_dataset = NoObject
  /\ ret = NoCall
  /\ iperm = None
  /\ pixels = None
  /\ pxi = None
  /\ dpc = "idle"

InitKM ==
  /\ IdleDS
  /\ x \in Inputs
  /\ ncluster \in 1..MaxK
  /\ ncluster <= Len(x)
  /\ niter \in 0..MaxIter
  /\ c = <<>>
  /\ a = <<>>
  /\ ndead = 0
  /\ i = 0
  /\ pc = "start"
  /\ still = 0

\* The guards of the steps.  Each step below is its guard and assignments
\* that can always be made, so a step is possible exactly when its guard
\* holds.  Indexing x with K (or ndead) distinct indices needs that many rows.
CanInitCenters == pc = "start" /\ RandPermPrefix(N, ncluster) # {}
CanRecompute == pc = "mean"
CanReseed == pc = "reseed" /\ RandPermPrefix(N, ndead) # {}

\* c = x[torch.randperm(N)[:ncluster]]
InitCenters ==
  /\ CanInitCenters
  /\ \E idx \in RandPermPrefix(N, ncluster) :
       c' = [k \in 1..ncluster |-> AsCenter(Gather(x, idx)[k])]
  /\ pc' = "assign"
  /\ UNCHANGED <<x, ncluster, niter, a, ndead, i, still, dsVars>>

\* The loop stops early once an iteration has changed nothing.
LoopDoneEarly == i >= niter \/ still >= 1

\* for i in range(niter): the loop is over after niter iterations.
LoopDone == i >= niter

CanAssign == pc = "assign" /\ ~LoopDone
CanReturn == pc = "assign" /\ LoopDone

AssignStep ==
  /\ CanAssign
  /\ a' = Assign(x, c)
  /\ pc' = "mean"
  /\ UNCHANGED <<x, ncluster, niter, c, ndead, i, still, dsVars>>

Recompute ==
  /\ CanRecompute
  /\ c' = Means(x, a, ncluster)
  /\ ndead' = Cardinality({k \in 1..ncluster : NanRows(c')[k]})
  /\ still' = IF c' = c THEN still + 1 ELSE 0
  /\ pc' = "reseed"
  /\ UNCHANGED <<x, ncluster, niter, a, i, dsVars>>

\* c[nanix] = x[torch.randperm(N)[:ndead]]
Reseed ==
  /\ CanReseed
  /\ \E idx \in RandPermPrefix(N, ndead) :
       c' = MaskedAssign(c, NanRows(c), Gather(x, idx))
  /\ i' = i + 1
  /\ pc' = "assign"
  /\ UNCHANGED <<x, ncluster, niter, a, ndead, still, dsVars>>

Return ==
  /\ CanReturn
  /\ pc' = "done"
  /\ UNCHANGED <<x, ncluster, niter, c, a, ndead, i, still, dsVars>>

NextKM == InitCenters \/ AssignStep \/ Recompute \/ Reseed \/ Return

SpecKM == InitKM /\ [][NextKM]_vars

\* -------------------------------------------------------- ImageDataset
\* torch.arange(n)
Arange(n) == [j \in 1..n |-> j - 1]

\* An off-by-one default ordering: arange(1, n + 1) wrapped into range.
ArangeShifted(n) == [j \in 1..n |-> j % n]

\* The ordering used when perm is None.
DefaultPerm(n) == Arange(n)

\* ImageDataset.__init__(self, pt_dataset, clusters, perm)
ImageDatasetInit(pt, clusters, perm) ==
  [pt_dataset |-> pt,
   clusters   |-> clusters,
   perm       |-> IF perm = None THEN DefaultPerm(NPix) ELSE perm,
   vocab_size |-> Len(clusters),
   block_size |-> NPix - 1]

\* A length taken from the sequence length instead of the dataset.
LenOfBlock(self) == self.block_size

\* ImageDataset.__len__(self)
LenOf(self) == Len(self.pt_dataset)

\* a[:-1] and a[1:]
ButLast(s) == SubSeq(s, 1, Len(s) - 1)
ButFirst(s) == SubSeq(s, 2, Len(s))

\* The index sequence a of __getitem__: the image's pixels (already a flat
\* sequence of color vectors) reordered by perm and looked up in clusters.
Encode(self, idx) == Assign(Gather(self.pt_dataset[idx + 1], self.perm), self.clusters)

\* A slicing slip: the target starts at the same position as the input.
GetItemNoShift(self, idx) == LET aa == Encode(self, idx) IN <<ButLast(aa), ButLast(aa)>>

\* ImageDataset.__getitem__(self, idx)
GetItemOf(self, idx) == LET aa == Encode(self, idx) IN <<ButLast(aa), ButFirst(aa)>>

\* torch.argsort(p) for p without repeated values: position r holds the index
\* of the entry of p that has exactly r smaller entries.
ArgSort(p) ==
  [r \in 1..Len(p) |->
     CHOOSE j \in 0..(Len(p) - 1) :
       Cardinality({m \in 1..Len(p) : p[m] < p[j + 1]}) = r - 1]

\* ------------------------------------------------------ the driver's inputs
\* Pixel colors of the images: every component 0 or every component MaxVal.
Pixels == {v \in Vec : \A d \in 1..Dim : v[d] = v[1] /\ v[d] \in {0, MaxVal}}

Images == [1..NPix -> Pixels]

\* An image of a single color.
Flat(v) == [p \in 1..NPix |-> v]

\* The train split: one image of any colors, or up to MaxImages images of a
\* single color each.
Datasets ==
  {<<img>> : img \in Images}
  \cup UNION {[1..n -> {Flat(v) : v \in Pixels}] : n \in 1..MaxImages}

\* The test split: one image of a single color.
TestDatasets == {<<Flat(v)>> : v \in Pixels}

Codebooks == UNION {[1..k -> {AsCenter(v) : v \in Pixels}] : k \in 1..MaxVocab}

Perms == {p \in [1..NPix -> 0..(NPix - 1)] : \A j, k \in 1..NPix : j # k => p[j] # p[k]}

\* kmeans' variables while only the adapters are looked at.
IdleKM ==
  /\ x = <<>>
  /\ ncluster = 0
  /\ niter = 0
  /\ c = <<>>
  /\ a = <<>>
  /\ ndead = 0
  /\ i = 0
  /\ pc = "idle"
  /\ still = 0

InitDS ==
  /\ IdleKM
  /\ train_data \in Datasets
  /\ test_data \in TestDatasets
  /\ C \in Codebooks
  /\ perm_arg \in {None} \cup Perms
  /\ train_dataset = NoObject
  /\ test_dataset = NoObject
  /\ ret = NoCall
  /\ iperm = None
  /\ pixels = None
  /\ pxi = None
  /\ dpc = "wrap_train"

\* train_dataset = ImageDataset(train_data, C), with any perm argument
ConstructTrain ==
  /\ dpc = "wrap_train"
  /\ train_dataset' = ImageDatasetInit(train_data, C, perm_arg)
  /\ dpc' = "wrap_test"
  /\ UNCHANGED <<kmVars, train_data, test_data, C, perm_arg, test_dataset, ret, iperm, pixels, pxi>>

\* test_dataset = ImageDataset(test_data, C)
ConstructTest ==
  /\ dpc = "wrap_test"
  /\ test_dataset' = ImageDatasetInit(test_data, C, None)
  /\ dpc' = "use"
  /\ UNCHANGED <<kmVars, train_data, test_data, C, perm_arg, train_dataset, ret, iperm, pixels, pxi>>

Adapter(o) == IF o = "train" THEN train_dataset ELSE test_dataset

\* len(dataset), as the trainer and the driver call it
LenCall ==
  /\ dpc = "use"
  /\ \E o \in {"train", "test"} :
       ret' = [call |-> "len", obj |-> o, idx |-> 0, val |-> LenOf(Adapter(o)),
               again |-> FALSE]
  /\ UNCHANGED <<kmVars, train_data, test_data, C, perm_arg, train_dataset, test_dataset,
                 iperm, pixels, pxi, dpc>>

\* dataset[idx], as the trainer and the driver call it, for an index of the
\* base dataset; again records that the call before was the same call.
GetItemCall ==
  /\ dpc = "use"
  /\ \E o \in {"train", "test"} :
       \E idx \in 0..(Len(Adapter(o).pt_dataset) - 1) :
         ret' = [call |-> "getitem", obj |-> o, idx |-> idx,
                 val |-> GetItemOf(Adapter(o), idx),
                 again |-> (ret.call = "getitem" /\ ret.obj = o /\ ret.idx = idx)]
  /\ UNCHANGED <<kmVars, train_data, test_data, C, perm_arg, train_dataset, test_dataset,
                 iperm, pixels, pxi, dpc>>

NextDS == ConstructTrain \/ ConstructTest \/ LenCall \/ GetItemCall

SpecDS == InitDS /\ [][NextDS]_vars

\* ---------------------------------------------------- decoding of samples
\* The rows the sampler can return: NPix indices below the vocabulary size.
SampleRows(vocab) == [1..NPix -> 0..(vocab - 1)]

\* The decoding runs are looked at for one-image train splits.
InitDec ==
  /\ InitDS
  /\ Len(train_data) = 1

\* Decoding with the permutation itself instead of its inverse.
InversePermForgotten(p) == p

\* iperm = torch.argsort(train_dataset.perm)
InversePerm(p) == ArgSort(p)

ArgSortPerm ==
  /\ dpc = "use"
  /\ iperm' = InversePerm(train_dataset.perm)
  /\ dpc' = "decode"
  /\ UNCHANGED <<kmVars, train_data, test_data, C, perm_arg, train_dataset, test_dataset,
                 ret, pixels, pxi>>

\* pxi = pixels[i][iperm], for one row of the sampler's output.  Every pass
\* of the loop reads iperm and a row of its own only, so one pass is modelled.
DecodeRow ==
  /\ dpc = "decode"
  /\ \E row \in SampleRows(train_dataset.vocab_size) :
       /\ pixels' = row
       /\ pxi' = Gather(row, iperm)
  /\ dpc' = "decoded"
  /\ UNCHANGED <<kmVars, train_data, test_data, C, perm_arg, train_dataset, test_dataset,
                 ret, iperm>>

NextDec == ConstructTrain \/ ConstructTest \/ ArgSortPerm \/ DecodeRow

SpecDec == InitDec /\ [][NextDec]_vars

\* ======================================================== the properties
\* f[1] + ... + f[n] for a sequence f.
RECURSIVE SumTo(_, _)
SumTo(f, n) == IF n = 0 THEN 0 ELSE f[n] + SumTo(f, n - 1)

\* The rows of x that assignment as gives to the 0-based center k.
Members(as, k) == {n \in 1..Len(as) : as[n] = k}

\* The squared distance from v to a (non-NaN) center, times den^2.
ScaledSq(v, ctr) ==
  SumTo([d \in 1..Len(v) |-> (ctr.den * v[d] - ctr.num[d]) * (ctr.den * v[d] - ctr.num[d])],
        Len(v))

\* dist(v, p) <= dist(v, q) for non-NaN centers p and q.
DistLeq(v, p, q) == ScaledSq(v, p) * q.den * q.den <= ScaledSq(v, q) * p.den * p.den

\* k (0-based) is the smallest index of a center nearest to v: its distance
\* is at most that of every center, and no earlier center has that property.
IsFirstNearest(v, cs, k) ==
  LET sq == [j \in 1..Len(cs) |-> ScaledSq(v, cs[j])]
      Leq(p, q) == sq[p] * cs[q].den * cs[q].den <= sq[q] * cs[p].den * cs[p].den
  IN  /\ k \in 0..(Len(cs) - 1)
      /\ \A j \in 1..Len(cs) : Leq(k + 1, j)
      /\ \A m \in 1..k : \E j \in 1..Len(cs) : ~Leq(m, j)

\* No input vector is assigned to the 0-based center k of codebook cs.
DeadIn(xs, cs, k) == LET as == Assign(xs, cs) IN \A n \in 1..Len(xs) : as[n] # k

\* C1: kmeans returns exactly K vectors (of Dim numbers each), none of them NaN.
C1_ReturnsKVectorsNoNaN ==
  pc = "done" =>
    /\ Len(c) = ncluster
    /\ \A k \in 1..Len(c) : ~IsNaN(c[k]) /\ c[k].den > 0 /\ Len(c[k].num) = Dim

C1_Witness ==
  pc = "done" /\ ncluster >= 2 /\ ncluster <= N /\ i = niter /\ niter >= 1 /\ ndead > 0

\* C5: after the re-seeding of an iteration every center that received no
\* input vector has been replaced by an input vector, every center that
\* received some is the mean of the vectors assigned to it, and no center is
\* NaN when an assignment step (or the return) reads it.  Before the
\* re-seeding the mean is NaN exactly for the centers with no vector.
C5_DeadCentersReseeded ==
  /\ pc = "reseed" =>
       \A k \in 1..ncluster : IsNaN(c[k]) <=> Members(a, k - 1) = {}
  /\ pc \in {"assign", "done"} =>
       \A k \in 1..Len(c) : ~IsNaN(c[k])
  /\ (pc \in {"assign", "done"} /\ i >= 1) =>
       \A k \in 1..ncluster :
         IF Members(a, k - 1) = {}
         THEN \E n \in 1..N : c[k] = AsCenter(x[n])
         ELSE /\ c[k].den > 0
              /\ \A d \in 1..Dim :
                   c[k].num[d] * Cardinality(Members(a, k - 1))
                     = c[k].den * SumTo([n \in 1..N |-> IF a[n] = k - 1 THEN x[n][d] ELSE 0], N)

C5_Witness ==
  /\ pc = "assign" /\ i >= 1 /\ i < niter /\ ndead > 0
  /\ \E k \in 1..ncluster : Cardinality(Members(a, k - 1)) >= 2

\* C7: the assignment computed by the lookup gives every input vector the
\* smallest index among the centers at least squared Euclidean distance.
C7_NearestIsFirstArgmin ==
  pc = "mean" => \A n \in 1..N : IsFirstNearest(x[n], c, a[n])

\* An assignment step in which one vector has two nearest centers (a tie,
\* taken by the lower index) and another vector goes to a later center.
C7_Witness ==
  /\ pc = "mean" /\ ncluster >= 2
  /\ \E n \in 1..N : \E j \in 1..ncluster :
       j > a[n] + 1 /\ DistLeq(x[n], c[j], c[a[n] + 1])
  /\ \E n \in 1..N : a[n] > 0

\* C8: a returned center whose value equals that of a lower-indexed returned
\* center is dead: the lookup assigns no input vector to it.  (Nothing after
\* the last iteration re-checks the centers, so such a codebook is returned.)
C8_DuplicateCenterIsDead ==
  pc = "done" =>
    \A k \in 1..Len(c) : (\E j \in 1..(k - 1) : c[j] = c[k]) => DeadIn(x, c, k - 1)

\* A run that re-seeded center k in its last iteration and returns it dead.
C8_Witness ==
  /\ pc = "done" /\ niter >= 1 /\ i = niter /\ ncluster <= N /\ ndead > 0
  /\ \E k \in 1..ncluster :
       /\ Members(a, k - 1) = {}
       /\ \E j \in 1..(k - 1) : c[j] = c[k]
       /\ DeadIn(x, c, k - 1)

\* The selections c = x[randperm(N)[:K]] can produce.
InitialSelections ==
  {[k \in 1..ncluster |-> AsCenter(x[idx[k] + 1])] : idx \in RandPermPrefix(N, ncluster)}

\* The steps left: three for each iteration not yet completed, less those of
\* the current one already taken, plus the return.
Variant ==
  IF pc = "done" THEN 0
  ELSE 3 * (niter - i)
       + (CASE pc = "start" -> 2 [] pc = "assign" -> 1 [] pc = "mean" -> 0
            [] pc = "reseed" -> -1 [] OTHER -> 0)

\* Some step of kmeans can be taken.
CanStep == CanInitCenters \/ CanAssign \/ CanRecompute \/ CanReseed \/ CanReturn

\* C9: kmeans terminates, and only after exactly niter iterations: until it
\* has returned a step is always possible and every step lowers a
\* non-negative measure; it returns with i = niter whether or not the
\* centers still change; with niter = 0 it returns an initial selection.
C9_ExactlyNiterIterations ==
  /\ [](pc # "done" => CanStep)
  /\ [](Variant >= 0)
  /\ [][Variant' < Variant]_vars
  /\ [](pc = "done" => i = niter)
  /\ []((pc = "done" /\ niter = 0) => c \in InitialSelections)

\* The guards are the steps' enabling conditions (checked at the bounds as
\* written; not part of a claim).
GuardsAreEnabling ==
  /\ CanInitCenters <=> ENABLED InitCenters
  /\ CanAssign <=> ENABLED AssignStep
  /\ CanRecompute <=> ENABLED Recompute
  /\ CanReseed <=> ENABLED Reseed
  /\ CanReturn <=> ENABLED Return
  /\ CanStep <=> ENABLED NextKM

C9_Witness ==
  pc = "done" /\ niter >= 2 /\ i = niter /\ still >= 2

\* The base dataset behind the adapter named in a call.
BaseOf(o) == IF o = "train" THEN train_data ELSE test_data

\* p holds every position 0 .. NPix - 1 exactly once.
IsBijection(p) ==
  /\ Len(p) = NPix
  /\ \A q \in 0..(NPix - 1) : \E j \in 1..NPix : p[j] = q
  /\ \A j, k \in 1..NPix : p[j] = p[k] => j = k

IsIdentity(p) == Len(p) = NPix /\ \A j \in 0..(NPix - 1) : p[j + 1] = j

\* C2: every value of the two sequences __getitem__ returns is an integer in
\* [0, K), K = vocab_size = the number of codebook vectors.
C2_IndicesBelowVocab ==
  ret.call = "getitem" =>
    /\ Adapter(ret.obj).vocab_size = Len(C)
    /\ \A h \in 1..2 : \A j \in 1..Len(ret.val[h]) :
         ret.val[h][j] \in 0..(Adapter(ret.obj).vocab_size - 1)

\* An item of the train adapter built with a permutation, under a codebook
\* of two or more vectors, whose sequences use the highest index.
C2_Witness ==
  /\ ret.call = "getitem" /\ ret.obj = "train" /\ perm_arg # None
  /\ Len(C) >= 2
  /\ \E j \in 1..(NPix - 1) : ret.val[1][j] = Len(C) - 1
  /\ \E j \in 1..(NPix - 1) : ret.val[2][j] = 0

\* C3: __getitem__ returns (a[:-1], a[1:]) of the image's index sequence a of
\* length P = NPix: both of length P - 1 = block_size, the target being the
\* input shifted by one, and the input followed by the target's last value
\* being a.
C3_InputTargetSlices ==
  ret.call = "getitem" =>
    LET inp  == ret.val[1]
        tgt  == ret.val[2]
        self == Adapter(ret.obj)
        img  == BaseOf(ret.obj)[ret.idx + 1]
        full == [j \in 1..NPix |->
                   CHOOSE k \in 0..(Len(C) - 1) :
                     IsFirstNearest(img[self.perm[j] + 1], C, k)]
    IN  /\ Len(img) = NPix
        /\ Len(inp) = NPix - 1 /\ Len(tgt) = NPix - 1
        /\ self.block_size = NPix - 1
        /\ \A j \in 1..(NPix - 2) : tgt[j] = inp[j + 1]
        /\ Append(inp, tgt[NPix - 1]) = full

\* An item whose index sequence is not constant, under a permutation.
C3_Witness ==
  /\ ret.call = "getitem" /\ ret.obj = "train" /\ perm_arg # None
  /\ ret.val[1] # ret.val[2]
  /\ ret.val[1][1] # ret.val[2][NPix - 1]

\* C4: the permutation is a bijection of the pixel positions and iperm
\* inverts it (perm[iperm[p]] = p for every position p), so a decoded row
\* that is the index sequence of an image holds at every position p the code
\* of the image's pixel p.
C4_DecodeInvertsPerm ==
  /\ dpc \in {"wrap_test", "use", "decode", "decoded"} => IsBijection(train_dataset.perm)
  /\ dpc \in {"decode", "decoded"} =>
       /\ Len(iperm) = NPix
       /\ \A p \in 0..(NPix - 1) : train_dataset.perm[iperm[p + 1] + 1] = p
  /\ dpc = "decoded" =>
       /\ \A j \in 1..NPix : pxi[train_dataset.perm[j] + 1] = pixels[j]
       /\ \A idx \in 0..(Len(train_data) - 1) :
            pixels = Encode(train_dataset, idx) =>
              \A p \in 1..NPix :
                IsFirstNearest(train_data[idx + 1][p], C, pxi[p])

\* A decoded row that encodes the train image under a permutation that is
\* not its own inverse, with two different codes in it.
C4_Witness ==
  /\ dpc = "decoded"
  /\ iperm # train_dataset.perm
  /\ pixels = Encode(train_dataset, 0)
  /\ \E j, k \in 1..NPix : pixels[j] # pixels[k]
  /\ pxi # pixels

\* C6: an adapter built without a permutation orders the pixels by the
\* identity, so the train and test adapters built that way agree, and the
\* decoding, which inverts train_dataset.perm, reorders nothing.
C6_DefaultPermIsIdentity ==
  /\ dpc \in {"use", "decode", "decoded"} => IsIdentity(test_dataset.perm)
  /\ (dpc \in {"wrap_test", "use", "decode", "decoded"} /\ perm_arg = None) =>
       IsIdentity(train_dataset.perm)
  /\ (dpc \in {"use", "decode", "decoded"} /\ perm_arg = None) =>
       train_dataset.perm = test_dataset.perm
  /\ (dpc \in {"decode", "decoded"} /\ perm_arg = None) => IsIdentity(iperm)
  /\ (dpc = "decoded" /\ perm_arg = None) => pxi = pixels

C6_Witness ==
  /\ dpc = "decoded" /\ perm_arg = None
  /\ \E j, k \in 1..NPix : pixels[j] # pixels[k]

\* C10: once built, the adapters, the codebook and the base datasets never
\* change whatever is called; __len__ returns the length of the base dataset;
\* a __getitem__ repeated with the same index returns the same pair.
C10_CallsChangeNothing ==
  [][/\ dpc = "use" =>
          /\ train_dataset' = train_dataset /\ test_dataset' = test_dataset
          /\ train_data' = train_data /\ test_data' = test_data /\ C' = C
          /\ train_dataset'.clusters = C /\ test_dataset'.clusters = C
          /\ train_dataset'.pt_dataset = train_data
          /\ test_dataset'.pt_dataset = test_data
     /\ ret'.call = "len" => ret'.val = Len(BaseOf(ret'.obj))
     /\ ret'.again => ret'.val = ret.val]_vars

\* The second of two lookups of the second image of a two-image train split.
C10_Witness ==
  /\ ret.call = "getitem" /\ ret.again /\ ret.obj = "train" /\ ret.idx = 1
  /\ Len(train_data) = 2

====
